---- MODULE Spec2Model ----
(***************************************************************************)
(* Excel import of cipl_app (cipl_app/scripts/excel_import.py): the        *)
(* preview of a field mapping against a spreadsheet's headers, the         *)
(* synchronous validation that schedules an import, and the background     *)
(* job that reconciles the spreadsheet's rows with the record store.       *)
(***************************************************************************)
EXTENDS Integers, Sequences, FiniteSets, TLC

\* ------------------------------------------------------------------ bounds
MaxRows == 2          \* data rows of an uploaded spreadsheet
MaxRequests == 2      \* calls of start_excel_import, and so runs of the job
MaxStored == 1        \* records in the store before an import
MaxLongRows == 12     \* data rows of a long spreadsheet
MaxHeaders == 3       \* header cells of a previewed spreadsheet
MaxMapRows == 2       \* child rows of a mapping document in the preview
MaxConcRows == 1      \* data rows of a spreadsheet that two concurrent runs import

\* ------------------------------------------------------- program constants
ProgressEvery == 10

\* ------------------------------------------------------------------ values
None == "None"
NaN == "NaN"

\* A cell as pandas hands it over: NaN for an empty cell, the number 0, or text.
UniqueCells == {NaN, "0", "a"}
NameCells == {"n"}

\* notna that takes an empty cell for a value
notna_Always(value) == TRUE

\* pd.notna(value)
notna(value) == value # NaN

\* Python truth value of a cell value or None: 0 and None are false, NaN is true.
truthy(value) == value \notin {None, "0"}

ExcelColumns == <<"Name", "Email">>
DoctypeFields == {"title", "email_addr", "phone"}

Range(s) == {s[i] : i \in DOMAIN s}

\* ----------------------------------------------------------- file system
\* A file reference: an optional leading slash, a directory part and a base name.
EmptyUrl == [slash |-> FALSE, dir |-> "", base |-> ""]
Url(slash, dir, base) == [slash |-> slash, dir |-> dir, base |-> base]

\* os.path.splitext(file_path)[1]
splitext(base) ==
    CASE base = "data.xlsx" -> ".xlsx"
      [] base = "data.XLS" -> ".XLS"
      [] base = "data.csv" -> ".csv"
      [] OTHER -> ""

\* str.lower() on an extension
lower(ext) ==
    CASE ext = ".XLS" -> ".xls"
      [] ext = ".XLSX" -> ".xlsx"
      [] OTHER -> ext

valid_extensions == {".xlsx", ".xls"}

Path(dir, base) == [dir |-> dir, base |-> base]

VARIABLES
    fs,            \* paths of the site directory that hold a file
    file_doc,      \* file_urls that have a File record
    sheet,         \* the uploaded workbook: [columns, rows]
    mapping_doc,   \* the excel_field_mapping document of "Customer"
    committed,     \* records of the doctype that are committed
    pending,       \* per run: record versions written and not yet committed
    names_used,    \* record names handed out so far
    ncalls,        \* calls of start_excel_import so far
    call_limit,    \* calls of start_excel_import the client makes
    last_call,     \* the last call of start_excel_import and its outcome
    queue,         \* jobs enqueued and not yet started
    job,           \* per run: the keyword arguments the job was enqueued with
    workers,       \* worker processes of the 'long' queue
    pc,            \* per run: where process_excel_import stands
    idx, total_rows,
    success_count, created_count, updated_count, skipped_count, error_count,
    doc_data, unique_value, existing_doc,
    exc,           \* per run: the exception the top-level handler caught
    events,        \* per run: the progress events published, in order
    preview        \* the last result of validate_import_preview

counters == <<success_count, created_count, updated_count, skipped_count, error_count>>
rowvars == <<doc_data, unique_value, existing_doc>>
envvars == <<fs, file_doc, sheet, mapping_doc>>
dbvars == <<committed, pending, names_used>>
callvars == <<ncalls, call_limit, last_call, queue, job, workers>>
vars == <<envvars, dbvars, callvars, pc, idx, total_rows, counters, rowvars, exc,
          events, preview>>

Runs == 1..MaxRequests

\* ------------------------------------------------------------ collaborators
\* os.path.exists(file_path)
path_exists(p) == p \in fs

\* frappe.db.exists('excel_field_mapping', doctype_name): "Customer" is the one
\* doctype that may have a mapping document.
mapping_exists(doctype_name) == doctype_name = "Customer" /\ mapping_doc.exists

\* field_mapping[key] = value on a dict kept as a sequence of items in insertion order
DictPut(d, k, v) ==
    IF \E i \in DOMAIN d : d[i].key = k
    THEN [i \in DOMAIN d |-> IF d[i].key = k THEN [key |-> k, value |-> v] ELSE d[i]]
    ELSE Append(d, [key |-> k, value |-> v])

RECURSIVE DictFromRows(_, _)
DictFromRows(rows, d) ==
    IF rows = <<>> THEN d
    ELSE DictFromRows(Tail(rows),
                      DictPut(d, Head(rows).excel_field_name, Head(rows).doctype_field_name))

keys(d) == [i \in DOMAIN d |-> d[i].key]
InDict(k, d) == \E i \in DOMAIN d : d[i].key = k
InList(x, l) == \E i \in DOMAIN l : l[i] = x

get_field_mapping(doctype_name) ==
    IF mapping_exists(doctype_name)
    THEN DictFromRows(mapping_doc.mapped_field, <<>>)
    ELSE <<>>

get_unique_field(doctype_name) ==
    IF mapping_exists(doctype_name) /\ mapping_doc.unique_field # ""
    THEN mapping_doc.unique_field
    ELSE None

\* validate_excel_file that accepts any extension
validate_excel_file_AnyExt(file_url) ==
    LET first == IF file_url.dir \in {"private/files", "files"}
                 THEN Path(file_url.dir, file_url.base)
                 ELSE Path("private/files", file_url.base)
        public == Path("public/files", file_url.base)
        found == path_exists(first) \/ path_exists(public)
        file_path == IF path_exists(first) THEN first ELSE public
    IN  IF ~found THEN [ok |-> FALSE, file_path |-> first, error |-> "File not found"]
        ELSE [ok |-> TRUE, file_path |-> file_path, error |-> ""]

\* validate_excel_file: [ok |-> TRUE, file_path] or [ok |-> FALSE, error]
validate_excel_file(file_url) ==
    LET first == IF file_url.dir \in {"private/files", "files"}
                 THEN Path(file_url.dir, file_url.base)
                 ELSE Path("private/files", file_url.base)
        public == Path("public/files", file_url.base)
        found == path_exists(first) \/ path_exists(public)
        file_path == IF path_exists(first) THEN first ELSE public
        file_ext == lower(splitext(file_path.base))
    IN  IF ~found THEN [ok |-> FALSE, file_path |-> first, error |-> "File not found"]
        ELSE IF file_ext \notin valid_extensions
        THEN [ok |-> FALSE, file_path |-> file_path, error |-> "Invalid file format"]
        ELSE [ok |-> TRUE, file_path |-> file_path, error |-> ""]

\* ------------------------------------------------------------------ preview
NoPreview == [status |-> "none"]

\* Excel columns not in mapping
missing_fields_of(field_mapping, excel_columns) ==
    SelectSeq(excel_columns, LAMBDA col : ~InDict(col, field_mapping))

\* mapped_fields that lists every key of the mapping
mapped_fields_AllKeys(field_mapping, excel_columns) == keys(field_mapping)

\* mapped fields that exist
mapped_fields_of(field_mapping, excel_columns) ==
    SelectSeq(keys(field_mapping), LAMBDA excel_field : InList(excel_field, excel_columns))

\* expected fields not in Excel
missing_in_excel_of(field_mapping, excel_columns) ==
    SelectSeq(keys(field_mapping), LAMBDA excel_field : ~InList(excel_field, excel_columns))

\* has_missing with "and" for "or"
has_missing_And(missing_fields, missing_in_excel) ==
    Len(missing_fields) > 0 /\ Len(missing_in_excel) > 0

has_missing_of(missing_fields, missing_in_excel) ==
    Len(missing_fields) > 0 \/ Len(missing_in_excel) > 0

preview_result(doctype_name, file_url) ==
    LET v == validate_excel_file(file_url)
        field_mapping == get_field_mapping(doctype_name)
        excel_columns == sheet.columns
        missing_fields == missing_fields_of(field_mapping, excel_columns)
        mapped_fields == mapped_fields_of(field_mapping, excel_columns)
        missing_in_excel == missing_in_excel_of(field_mapping, excel_columns)
    IN  IF ~v.ok THEN [status |-> "error", message |-> v.error]
        ELSE IF field_mapping = <<>>
        THEN [status |-> "error", message |-> "No field mappings found"]
        ELSE [status |-> "success",
              total_excel_columns |-> Len(excel_columns),
              mapped_fields |-> mapped_fields,
              missing_fields |-> missing_fields,
              missing_in_excel |-> missing_in_excel,
              has_missing |-> has_missing_of(missing_fields, missing_in_excel)]

\* validate_import_preview(doctype_name, file_url)
validate_import_preview(doctype_name, file_url) ==
    /\ preview' = preview_result(doctype_name, file_url)
    /\ UNCHANGED <<envvars, dbvars, callvars, pc, idx, total_rows, counters, rowvars,
                   exc, events>>

\* ------------------------------------------------------- start_excel_import
NoJob == [doctype_name |-> "", file_path |-> Path("", ""), field_mapping |-> <<>>,
          unique_field |-> None, file_url |-> EmptyUrl,
          allow_create |-> 0, allow_update |-> 0]
NoCall == [doctype_name |-> "", file_url |-> EmptyUrl, raised |-> FALSE]

start_excel_import(doctype_name, file_url, allow_create, allow_update) ==
    /\ ncalls < call_limit
    /\ LET v == validate_excel_file(file_url)
           field_mapping == get_field_mapping(doctype_name)
           unique_field == get_unique_field(doctype_name)
           raised == \/ doctype_name = "" \/ file_url = EmptyUrl
                     \/ ~mapping_exists(doctype_name)
                     \/ ~v.ok
                     \/ field_mapping = <<>>
           r == ncalls + 1
       IN  /\ ncalls' = r
           /\ last_call' = [doctype_name |-> doctype_name, file_url |-> file_url,
                            raised |-> raised]
           /\ IF raised
              THEN UNCHANGED <<queue, job>>
              ELSE /\ queue' = Append(queue, r)
                   /\ job' = [job EXCEPT ![r] =
                                [doctype_name |-> doctype_name,
                                 file_path |-> v.file_path,
                                 field_mapping |-> field_mapping,
                                 unique_field |-> unique_field,
                                 file_url |-> file_url,
                                 allow_create |-> allow_create,
                                 allow_update |-> allow_update]]
    /\ UNCHANGED <<envvars, dbvars, call_limit, workers, pc, idx, total_rows, counters, rowvars,
                   exc, events, preview>>

\* ----------------------------------------------------------- the task runner
Active(r) == pc[r] \notin {"idle", "completed", "failed", "no_data"}

\* A worker of the 'long' queue takes the oldest job and calls process_excel_import.
dequeue(r) ==
    /\ queue # <<>> /\ Head(queue) = r
    /\ Cardinality({q \in Runs : Active(q)}) < workers
    /\ queue' = Tail(queue)
    /\ pc' = [pc EXCEPT ![r] = "read_excel"]
    /\ UNCHANGED <<envvars, dbvars, ncalls, call_limit, last_call, job, workers, idx, total_rows,
                   counters, rowvars, exc, events, preview>>

\* ---------------------------------------------------------- the record store
NoDoc == 0

\* View that also reads what the other runs have written and not committed
View_ReadUncommitted(r) ==
    {rec \in committed : \A q \in Runs : \A p \in pending[q] : p.name # rec.name}
        \cup UNION {pending[q] : q \in Runs}

\* What run r reads: the committed records, overlaid with its own writes.
View(r) == {rec \in committed : \A p \in pending[r] : p.name # rec.name} \cup pending[r]

\* frappe.db.get_value(doctype_name, {unique_field: unique_value}, 'name'):
\* the names it may return (NoDoc when nothing matches)
get_value(r, field, value) ==
    LET found == {rec.name : rec \in {x \in View(r) : x.fields[field] = value}}
    IN  IF found = {} THEN {NoDoc} ELSE found

\* frappe.get_doc(doc_data).insert(): the record a draft becomes
new_doc(name, data) ==
    [name |-> name,
     fields |-> [f \in DoctypeFields |-> IF f \in DOMAIN data THEN data[f] ELSE None]]

\* saved_doc that replaces the record by the draft: a field the draft lacks is cleared
saved_doc_Replace(doc, data) ==
    [name |-> doc.name,
     fields |-> [f \in DoctypeFields |-> IF f \in DOMAIN data THEN data[f] ELSE None]]

\* setattr(doc, field, value) for every field of the draft, then doc.save()
saved_doc(doc, data) ==
    [name |-> doc.name,
     fields |-> [f \in DoctypeFields |-> IF f \in DOMAIN data THEN data[f] ELSE doc.fields[f]]]

\* ------------------------------------------------------------ progress events
Event(progress, total, message, status) ==
    [progress |-> progress, total |-> total, message |-> message, status |-> status]

Message(text, detail, args) == [text |-> text, detail |-> detail, args |-> args]

\* publish_progress(progress, total, message, status) by run r
publish_progress(r, progress, total, message, status) ==
    events' = [events EXCEPT ![r] = Append(@, Event(progress, total, message, status))]

\* progress_percent computed from the rows that remain
progress_percent_Remaining(i, total) == ((total - (i + 1)) * 100) \div total

\* int(((idx + 1) / total_rows) * 100): the float quotient, times 100, truncated; for
\* every total_rows below 500 this is the integer floor of (idx + 1) * 100 / total_rows
progress_percent(i, total) == ((i + 1) * 100) \div total

\* ------------------------------------------------------ process_excel_import
NoData == [x \in {} |-> None]

\* tracks_unique that takes the value of any mapped field for the unique value
tracks_unique_AnyField(unique_field, doctype_field) == unique_field # None

\* if unique_field and doctype_field == unique_field
tracks_unique(unique_field, doctype_field) ==
    unique_field # None /\ doctype_field = unique_field

\* the draft and the unique value of one row: the loop over field_mapping.items()
RECURSIVE map_row(_, _, _, _, _)
map_row(items, row, excel_columns, unique_field, acc) ==
    IF items = <<>> THEN acc
    ELSE LET excel_field == Head(items).key
             doctype_field == Head(items).value
             value == row[excel_field]
             next ==
                 IF InList(excel_field, excel_columns) /\ notna(value)
                 THEN [doc_data |->
                           [f \in DOMAIN acc.doc_data \cup {doctype_field} |->
                               IF f = doctype_field THEN value ELSE acc.doc_data[f]],
                       unique_value |->
                           IF tracks_unique(unique_field, doctype_field)
                           THEN value ELSE acc.unique_value]
                 ELSE acc
         IN  map_row(Tail(items), row, excel_columns, unique_field, next)

\* no_data that lets a workbook of zero rows through
no_data_Negative(total) == total < 0

\* if total_rows <= 0
no_data(total) == total <= 0

\* pd.read_excel, len(df), the zero-row return and the counters' initialisation
read_excel(r) ==
    /\ pc[r] = "read_excel"
    /\ \/ /\ path_exists(job[r].file_path)
          /\ ~no_data(Len(sheet.rows))
          /\ total_rows' = [total_rows EXCEPT ![r] = Len(sheet.rows)]
          /\ success_count' = [success_count EXCEPT ![r] = 0]
          /\ created_count' = [created_count EXCEPT ![r] = 0]
          /\ updated_count' = [updated_count EXCEPT ![r] = 0]
          /\ skipped_count' = [skipped_count EXCEPT ![r] = 0]
          /\ error_count' = [error_count EXCEPT ![r] = 0]
          /\ idx' = [idx EXCEPT ![r] = 0]
          /\ pc' = [pc EXCEPT ![r] = IF Len(sheet.rows) > 0 THEN "row_map" ELSE "commit"]
          /\ UNCHANGED <<exc, events>>
       \/ /\ path_exists(job[r].file_path)
          /\ no_data(Len(sheet.rows))
          /\ total_rows' = [total_rows EXCEPT ![r] = Len(sheet.rows)]
          /\ publish_progress(r, 0, 0, Message("No data found in Excel file", "", <<>>),
                              "error")
          /\ pc' = [pc EXCEPT ![r] = "no_data"]
          /\ UNCHANGED <<counters, idx, exc>>
       \/ \* the file is gone, or openpyxl cannot read it
          /\ \E e \in IF path_exists(job[r].file_path)
                      THEN {"BadZipFile"} ELSE {"FileNotFoundError"} :
                 exc' = [exc EXCEPT ![r] = e]
          /\ pc' = [pc EXCEPT ![r] = "except"]
          /\ UNCHANGED <<counters, idx, total_rows, events>>
    /\ UNCHANGED <<envvars, dbvars, callvars, rowvars, preview>>

\* after a row: the next iteration of df.iterrows(), or the code after the loop
next_row(r) ==
    IF idx[r] + 1 < total_rows[r]
    THEN /\ idx' = [idx EXCEPT ![r] = @ + 1]
         /\ pc' = [pc EXCEPT ![r] = "row_map"]
    ELSE /\ idx' = idx
         /\ pc' = [pc EXCEPT ![r] = "commit"]

\* row_except that continues without counting the error
row_except_NoCount(r) ==
    /\ next_row(r)
    /\ UNCHANGED counters

\* row_except that counts the error and leaves the loop for the top-level handler
row_except_Abort(r) ==
    /\ error_count' = [error_count EXCEPT ![r] = @ + 1]
    /\ pc' = [pc EXCEPT ![r] = "except"]
    /\ idx' = idx
    /\ UNCHANGED <<success_count, created_count, updated_count, skipped_count>>

\* except Exception inside the loop: count the error, log it, continue
row_except(r) ==
    /\ error_count' = [error_count EXCEPT ![r] = @ + 1]
    /\ next_row(r)
    /\ UNCHANGED <<success_count, created_count, updated_count, skipped_count>>

\* build doc_data and unique_value from the row
row_map(r) ==
    /\ pc[r] = "row_map"
    /\ \/ LET m == map_row(job[r].field_mapping, sheet.rows[idx[r] + 1], sheet.columns,
                           job[r].unique_field,
                           [doc_data |-> NoData, unique_value |-> None])
          IN  /\ doc_data' = [doc_data EXCEPT ![r] = m.doc_data]
              /\ unique_value' = [unique_value EXCEPT ![r] = m.unique_value]
              /\ pc' = [pc EXCEPT ![r] = "row_lookup"]
              /\ UNCHANGED <<idx, counters, existing_doc>>
       \/ /\ row_except(r)
          /\ UNCHANGED rowvars
    /\ UNCHANGED <<envvars, dbvars, callvars, total_rows, exc, events, preview>>

\* the duplicate lookup
row_lookup(r) ==
    /\ pc[r] = "row_lookup"
    /\ \/ /\ job[r].unique_field # None /\ truthy(unique_value[r])
          /\ \E name \in get_value(r, job[r].unique_field, unique_value[r]) :
                 existing_doc' = [existing_doc EXCEPT ![r] = name]
          /\ pc' = [pc EXCEPT ![r] = "row_write"]
          /\ UNCHANGED <<idx, counters>>
       \/ /\ ~(job[r].unique_field # None /\ truthy(unique_value[r]))
          /\ existing_doc' = [existing_doc EXCEPT ![r] = NoDoc]
          /\ pc' = [pc EXCEPT ![r] = "row_write"]
          /\ UNCHANGED <<idx, counters>>
       \/ \* frappe.db.get_value raises
          /\ job[r].unique_field # None /\ truthy(unique_value[r])
          /\ row_except(r)
          /\ UNCHANGED existing_doc
    /\ UNCHANGED <<envvars, dbvars, callvars, total_rows, doc_data, unique_value, exc,
                   events, preview>>

\* decide that creates when an existing record may not be updated
decide_CreateWhenNoUpdate(existing, allow_update, allow_create) ==
    IF existing # NoDoc /\ allow_update # 0 THEN "update"
    ELSE IF allow_create # 0 THEN "create"
    ELSE IF existing # NoDoc THEN "skip_update" ELSE "skip_create"

\* the action decided by existing_doc, allow_update and allow_create
decide(existing, allow_update, allow_create) ==
    IF existing # NoDoc
    THEN IF allow_update # 0 THEN "update" ELSE "skip_update"
    ELSE IF allow_create # 0 THEN "create" ELSE "skip_create"

decision(r) == decide(existing_doc[r], job[r].allow_update, job[r].allow_create)

row_write(r) ==
    /\ pc[r] = "row_write"
    /\ \/ /\ decision(r) = "update"
          /\ \E doc \in {x \in View(r) : x.name = existing_doc[r]} :
                 pending' = [pending EXCEPT ![r] =
                                {p \in @ : p.name # doc.name}
                                    \cup {saved_doc(doc, doc_data[r])}]
          /\ updated_count' = [updated_count EXCEPT ![r] = @ + 1]
          /\ success_count' = [success_count EXCEPT ![r] = @ + 1]
          /\ pc' = [pc EXCEPT ![r] = "row_progress"]
          /\ UNCHANGED <<names_used, created_count, skipped_count, error_count, idx>>
       \/ /\ decision(r) = "skip_update"
          /\ skipped_count' = [skipped_count EXCEPT ![r] = @ + 1]
          /\ pc' = [pc EXCEPT ![r] = "row_progress"]
          /\ UNCHANGED <<pending, names_used, success_count, created_count,
                         updated_count, error_count, idx>>
       \/ /\ decision(r) = "create"
          /\ names_used' = names_used + 1
          /\ pending' = [pending EXCEPT ![r] =
                            @ \cup {new_doc(names_used + 1, doc_data[r])}]
          /\ created_count' = [created_count EXCEPT ![r] = @ + 1]
          /\ success_count' = [success_count EXCEPT ![r] = @ + 1]
          /\ pc' = [pc EXCEPT ![r] = "row_progress"]
          /\ UNCHANGED <<updated_count, skipped_count, error_count, idx>>
       \/ /\ decision(r) = "skip_create"
          /\ skipped_count' = [skipped_count EXCEPT ![r] = @ + 1]
          /\ pc' = [pc EXCEPT ![r] = "row_progress"]
          /\ UNCHANGED <<pending, names_used, success_count, created_count,
                         updated_count, error_count, idx>>
       \/ \* get_doc, save or insert raises: nothing is written, nothing but the error counted
          /\ decision(r) \in {"update", "create"}
          /\ row_except(r)
          /\ UNCHANGED <<pending, names_used>>
    /\ UNCHANGED <<envvars, committed, callvars, total_rows, rowvars, exc, events, preview>>

\* publish progress every 10 rows or on the last row
row_progress(r) ==
    /\ pc[r] = "row_progress"
    /\ IF (idx[r] + 1) % ProgressEvery = 0 \/ (idx[r] + 1) = total_rows[r]
       THEN publish_progress(r, progress_percent(idx[r], total_rows[r]), total_rows[r],
                             Message("Processing row", "", <<idx[r] + 1, total_rows[r]>>),
                             "in_progress")
       ELSE UNCHANGED events
    /\ next_row(r)
    /\ UNCHANGED <<envvars, dbvars, callvars, total_rows, counters, rowvars, exc, preview>>

\* frappe.db.commit() after the loop
commit(r) ==
    /\ pc[r] = "commit"
    /\ \/ /\ committed' = View(r)
          /\ pending' = [pending EXCEPT ![r] = {}]
          /\ pc' = [pc EXCEPT ![r] = "cleanup"]
          /\ UNCHANGED exc
       \/ /\ exc' = [exc EXCEPT ![r] = "OperationalError"]
          /\ pc' = [pc EXCEPT ![r] = "except"]
          /\ UNCHANGED <<committed, pending>>
    /\ UNCHANGED <<envvars, names_used, callvars, idx, total_rows, counters, rowvars,
                   events, preview>>

\* cleanup whose failure escapes to the top-level handler
cleanup_Escalate(r) ==
    /\ pc[r] = "cleanup"
    /\ \/ /\ path_exists(job[r].file_path)
          /\ fs' = fs \ {job[r].file_path}
          /\ file_doc' = file_doc \ {job[r].file_url}
          /\ pc' = [pc EXCEPT ![r] = "publish_completed"]
          /\ UNCHANGED exc
       \/ /\ path_exists(job[r].file_path)
          /\ exc' = [exc EXCEPT ![r] = "PermissionError"]
          /\ pc' = [pc EXCEPT ![r] = "except"]
          /\ UNCHANGED <<fs, file_doc>>
       \/ /\ path_exists(job[r].file_path)
          /\ job[r].file_url \in file_doc
          /\ fs' = fs \ {job[r].file_path}
          /\ exc' = [exc EXCEPT ![r] = "LinkExistsError"]
          /\ pc' = [pc EXCEPT ![r] = "except"]
          /\ UNCHANGED file_doc
       \/ /\ ~path_exists(job[r].file_path)
          /\ pc' = [pc EXCEPT ![r] = "publish_completed"]
          /\ UNCHANGED <<fs, file_doc, exc>>
    /\ UNCHANGED <<sheet, mapping_doc, dbvars, callvars, idx, total_rows, counters,
                   rowvars, events, preview>>

\* delete the uploaded file and its File record; a failure is only logged
cleanup(r) ==
    /\ pc[r] = "cleanup"
    /\ \/ /\ path_exists(job[r].file_path)
          /\ fs' = fs \ {job[r].file_path}
          /\ file_doc' = file_doc \ {job[r].file_url}
       \/ \* os.remove raises
          /\ path_exists(job[r].file_path)
          /\ UNCHANGED <<fs, file_doc>>
       \/ \* frappe.delete_doc raises after the file is removed
          /\ path_exists(job[r].file_path)
          /\ job[r].file_url \in file_doc
          /\ fs' = fs \ {job[r].file_path}
          /\ UNCHANGED file_doc
       \/ /\ ~path_exists(job[r].file_path)
          /\ UNCHANGED <<fs, file_doc>>
    /\ pc' = [pc EXCEPT ![r] = "publish_completed"]
    /\ UNCHANGED <<sheet, mapping_doc, dbvars, callvars, idx, total_rows, counters,
                   rowvars, exc, events, preview>>

\* final_message that reports the error count also when it is zero
final_message_AlwaysErrors(created, updated, skipped, errors) ==
    Message("Import completed", "", <<created, updated, skipped, errors>>)

\* the final message: the three counts, and the error count if it is positive
final_message(created, updated, skipped, errors) ==
    Message("Import completed", "",
            IF errors > 0
            THEN <<created, updated, skipped, errors>>
            ELSE <<created, updated, skipped>>)

\* the completed event
publish_completed(r) ==
    /\ pc[r] = "publish_completed"
    /\ publish_progress(r, 100, total_rows[r],
          final_message(created_count[r], updated_count[r], skipped_count[r],
                        error_count[r]),
          "completed")
    /\ pc' = [pc EXCEPT ![r] = "completed"]
    /\ UNCHANGED <<envvars, dbvars, callvars, idx, total_rows, counters, rowvars, exc,
                   preview>>

\* top_except without the rollback
top_except_NoRollback(r) ==
    /\ pc[r] = "except"
    /\ publish_progress(r, 0, 0, Message("Import failed", exc[r], <<>>), "error")
    /\ pc' = [pc EXCEPT ![r] = "failed"]
    /\ UNCHANGED <<envvars, dbvars, callvars, idx, total_rows, counters, rowvars, exc,
                   preview>>

\* top_except that also deletes the uploaded file and its File record
top_except_Cleanup(r) ==
    /\ pc[r] = "except"
    /\ publish_progress(r, 0, 0, Message("Import failed", exc[r], <<>>), "error")
    /\ pending' = [pending EXCEPT ![r] = {}]
    /\ fs' = fs \ {job[r].file_path}
    /\ file_doc' = file_doc \ {job[r].file_url}
    /\ pc' = [pc EXCEPT ![r] = "failed"]
    /\ UNCHANGED <<sheet, mapping_doc, committed, names_used, callvars, idx, total_rows,
                   counters, rowvars, exc, preview>>

\* the top-level except: log, publish the error event, roll back
top_except(r) ==
    /\ pc[r] = "except"
    /\ publish_progress(r, 0, 0, Message("Import failed", exc[r], <<>>), "error")
    /\ pending' = [pending EXCEPT ![r] = {}]
    /\ pc' = [pc EXCEPT ![r] = "failed"]
    /\ UNCHANGED <<envvars, committed, names_used, callvars, idx, total_rows, counters,
                   rowvars, exc, preview>>

\* ------------------------------------------------------------ the environment
UploadUrl == Url(TRUE, "private/files", "data.xlsx")
UploadPath == Path("private/files", "data.xlsx")

\* The user uploads the workbook again after an import has removed it.
upload_file ==
    /\ UploadPath \notin fs
    /\ fs' = fs \cup {UploadPath}
    /\ file_doc' = file_doc \cup {UploadUrl}
    /\ UNCHANGED <<sheet, mapping_doc, dbvars, callvars, pc, idx, total_rows, counters,
                   rowvars, exc, events, preview>>

CustomerMapping ==
    << [excel_field_name |-> "Name", doctype_field_name |-> "title"],
       [excel_field_name |-> "Email", doctype_field_name |-> "email_addr"] >>

Rows == {[c \in Range(ExcelColumns) |-> IF c = "Name" THEN n ELSE u] :
            n \in NameCells, u \in UniqueCells}

SeqsUpTo(S, n) == UNION {[1..k -> S] : k \in 0..n}

DoctypeNames == {"", "Customer"}
FileUrls == {UploadUrl}
Flags == {0, 1}

Sheet(rows) == [columns |-> ExcelColumns, rows |-> rows]
ShortSheets == {Sheet(rows) : rows \in SeqsUpTo(Rows, MaxRows)}

MappingDocs ==
    {[exists |-> TRUE, mapped_field |-> CustomerMapping, unique_field |-> u] :
        u \in {"", "email_addr", "phone"}}

RunInit ==
    /\ committed = {}
    /\ pending = [r \in Runs |-> {}]
    /\ names_used = 0
    /\ ncalls = 0
    /\ last_call = NoCall
    /\ queue = <<>>
    /\ job = [r \in Runs |-> NoJob]
    /\ pc = [r \in Runs |-> "idle"]
    /\ idx = [r \in Runs |-> 0]
    /\ total_rows = [r \in Runs |-> 0]
    /\ success_count = [r \in Runs |-> 0]
    /\ created_count = [r \in Runs |-> 0]
    /\ updated_count = [r \in Runs |-> 0]
    /\ skipped_count = [r \in Runs |-> 0]
    /\ error_count = [r \in Runs |-> 0]
    /\ doc_data = [r \in Runs |-> NoData]
    /\ unique_value = [r \in Runs |-> None]
    /\ existing_doc = [r \in Runs |-> NoDoc]
    /\ exc = [r \in Runs |-> ""]
    /\ events = [r \in Runs |-> <<>>]
    /\ preview = NoPreview

Init ==
    /\ fs = {UploadPath}
    /\ file_doc = {UploadUrl}
    /\ sheet \in ShortSheets
    /\ mapping_doc \in MappingDocs
    /\ workers = 1
    /\ call_limit = MaxRequests
    /\ RunInit

Next ==
    \/ \E d \in DoctypeNames, u \in FileUrls, c \in Flags, a \in Flags :
           start_excel_import(d, u, c, a)
    \/ \E r \in Runs : dequeue(r)
    \/ \E r \in Runs : read_excel(r)
    \/ \E r \in Runs : row_map(r)
    \/ \E r \in Runs : row_lookup(r)
    \/ \E r \in Runs : row_write(r)
    \/ \E r \in Runs : row_progress(r)
    \/ \E r \in Runs : commit(r)
    \/ \E r \in Runs : cleanup(r)
    \/ \E r \in Runs : publish_completed(r)
    \/ \E r \in Runs : top_except(r)
    \/ upload_file

Spec == Init /\ [][Next]_vars

\* ------------------------------------------------- process_excel_import alone
\* One job, as start_excel_import enqueued it, over a store that already holds records.
StoredFields ==
    {[f \in DoctypeFields |->
        IF f = "title" THEN "t" ELSE IF f = "email_addr" THEN e ELSE None] :
        e \in {"a", "0"}}
Stores ==
    {{[name |-> i, fields |-> st[i]] : i \in DOMAIN st} : st \in SeqsUpTo(StoredFields, MaxStored)}

AcceptedCall == [doctype_name |-> "Customer", file_url |-> UploadUrl, raised |-> FALSE]

JobInitWith(sheets, stores) ==
    /\ fs = {UploadPath}
    /\ file_doc = {UploadUrl}
    /\ sheet \in sheets
    /\ mapping_doc \in MappingDocs
    /\ workers = 1
    /\ committed \in stores
    /\ names_used = Cardinality(committed)
    /\ pending = [r \in Runs |-> {}]
    /\ ncalls = 1
    /\ call_limit = 1
    /\ last_call = AcceptedCall
    /\ queue = <<1>>
    /\ \E c \in Flags, a \in Flags :
           job = [r \in Runs |->
                    IF r = 1
                    THEN [doctype_name |-> "Customer",
                          file_path |-> validate_excel_file(UploadUrl).file_path,
                          field_mapping |-> get_field_mapping("Customer"),
                          unique_field |-> get_unique_field("Customer"),
                          file_url |-> UploadUrl,
                          allow_create |-> c,
                          allow_update |-> a]
                    ELSE NoJob]
    /\ pc = [r \in Runs |-> "idle"]
    /\ idx = [r \in Runs |-> 0]
    /\ total_rows = [r \in Runs |-> 0]
    /\ success_count = [r \in Runs |-> 0]
    /\ created_count = [r \in Runs |-> 0]
    /\ updated_count = [r \in Runs |-> 0]
    /\ skipped_count = [r \in Runs |-> 0]
    /\ error_count = [r \in Runs |-> 0]
    /\ doc_data = [r \in Runs |-> NoData]
    /\ unique_value = [r \in Runs |-> None]
    /\ existing_doc = [r \in Runs |-> NoDoc]
    /\ exc = [r \in Runs |-> ""]
    /\ events = [r \in Runs |-> <<>>]
    /\ preview = NoPreview

JobInit == JobInitWith(ShortSheets, Stores)

\* the same job over an empty store
EmptyStoreInit == JobInitWith(ShortSheets, {{}})

RunStep(r) ==
    \/ dequeue(r) \/ read_excel(r) \/ row_map(r) \/ row_lookup(r) \/ row_write(r)
    \/ row_progress(r) \/ commit(r) \/ cleanup(r) \/ publish_completed(r)
    \/ top_except(r)

RunNext ==
    \/ \E r \in Runs : dequeue(r)
    \/ \E r \in Runs : read_excel(r)
    \/ \E r \in Runs : row_map(r)
    \/ \E r \in Runs : row_lookup(r)
    \/ \E r \in Runs : row_write(r)
    \/ \E r \in Runs : row_progress(r)
    \/ \E r \in Runs : commit(r)
    \/ \E r \in Runs : cleanup(r)
    \/ \E r \in Runs : publish_completed(r)
    \/ \E r \in Runs : top_except(r)

RunSpec == JobInit /\ [][RunNext]_vars

\* The worker runs the job it has taken: each step of the run is taken in the end.
FairSpec == EmptyStoreInit /\ [][RunNext]_vars /\ \A r \in Runs : WF_vars(RunStep(r))

\* A spreadsheet long enough for the every-10-rows progress events; every row of it
\* holds the same cells.
LongInit ==
    JobInitWith({Sheet([i \in 1..n |-> row]) : n \in ProgressEvery..MaxLongRows, row \in Rows},
                Stores)

LongSpec == LongInit /\ [][RunNext]_vars

\* A spreadsheet whose cells may be empty in either column.
CellRows == {[c \in Range(ExcelColumns) |-> IF c = "Name" THEN n ELSE u] :
                n \in {NaN, "n"}, u \in {NaN, "a"}}

CellInit == JobInitWith({Sheet(rows) : rows \in SeqsUpTo(CellRows, MaxRows)}, Stores)

CellSpec == CellInit /\ [][RunNext]_vars

\* Two jobs over the same upload, enqueued by two calls of start_excel_import, and two
\* workers of the queue: the runs are concurrent.  The mapping's unique field is the
\* target of a column.
ConcInit ==
    /\ fs = {UploadPath}
    /\ file_doc = {UploadUrl}
    /\ sheet \in {Sheet(rows) : rows \in SeqsUpTo(Rows, MaxConcRows)}
    /\ mapping_doc \in {m \in MappingDocs :
                           \E i \in DOMAIN m.mapped_field :
                               m.mapped_field[i].doctype_field_name = m.unique_field}
    /\ workers = 2
    /\ committed = {}
    /\ names_used = 0
    /\ pending = [r \in Runs |-> {}]
    /\ ncalls = 2
    /\ call_limit = 2
    /\ last_call = AcceptedCall
    /\ queue = <<1, 2>>
    /\ \E c \in [Range(queue) -> Flags], a \in [Range(queue) -> Flags] :
           job = [r \in Runs |->
                    IF r \in Range(queue)
                    THEN [doctype_name |-> "Customer",
                          file_path |-> validate_excel_file(UploadUrl).file_path,
                          field_mapping |-> get_field_mapping("Customer"),
                          unique_field |-> get_unique_field("Customer"),
                          file_url |-> UploadUrl,
                          allow_create |-> c[r],
                          allow_update |-> a[r]]
                    ELSE NoJob]
    /\ pc = [r \in Runs |-> "idle"]
    /\ idx = [r \in Runs |-> 0]
    /\ total_rows = [r \in Runs |-> 0]
    /\ success_count = [r \in Runs |-> 0]
    /\ created_count = [r \in Runs |-> 0]
    /\ updated_count = [r \in Runs |-> 0]
    /\ skipped_count = [r \in Runs |-> 0]
    /\ error_count = [r \in Runs |-> 0]
    /\ doc_data = [r \in Runs |-> NoData]
    /\ unique_value = [r \in Runs |-> None]
    /\ existing_doc = [r \in Runs |-> NoDoc]
    /\ exc = [r \in Runs |-> ""]
    /\ events = [r \in Runs |-> <<>>]
    /\ preview = NoPreview

ConcSpec == ConcInit /\ [][RunNext]_vars

\* ------------------------------------------------- start_excel_import alone
StartPaths ==
    {Path("private/files", "data.xlsx"), Path("public/files", "data.xlsx"),
     Path("files", "data.XLS"), Path("public/files", "data.XLS"),
     Path("private/files", "data.csv")}
StartUrls ==
    {EmptyUrl, UploadUrl, Url(FALSE, "files", "data.XLS"), Url(FALSE, "", "data.csv"),
     Url(TRUE, "uploads", "data.xlsx")}
StartDoctypes == {"", "Customer", "Ghost"}
StartMappingDocs ==
    {[exists |-> FALSE, mapped_field |-> <<>>, unique_field |-> ""],
     [exists |-> TRUE, mapped_field |-> <<>>, unique_field |-> "email_addr"],
     [exists |-> TRUE, mapped_field |-> CustomerMapping, unique_field |-> "email_addr"]}

StartInit ==
    /\ fs \in SUBSET StartPaths
    /\ file_doc = {}
    /\ sheet = Sheet(<<>>)
    /\ mapping_doc \in StartMappingDocs
    /\ workers = 0
    /\ call_limit = MaxRequests
    /\ RunInit

StartNext ==
    \E d \in StartDoctypes, u \in StartUrls, c \in Flags, a \in Flags :
        start_excel_import(d, u, c, a)

StartSpec == StartInit /\ [][StartNext]_vars

\* ------------------------------------------------ validate_import_preview alone
HeaderNames == {"Name", "Email", "Notes"}
MapRows ==
    {[excel_field_name |-> e, doctype_field_name |-> f] :
        e \in {"Name", "Email", "Phone"}, f \in {"title", "email_addr"}}

\* df.columns: pandas keeps the column labels distinct
Headers == {h \in SeqsUpTo(HeaderNames, MaxHeaders) :
               \A i, j \in DOMAIN h : h[i] = h[j] => i = j}

PreviewInit ==
    /\ fs \in {{UploadPath}, {}}
    /\ file_doc = {}
    /\ sheet \in {[columns |-> h, rows |-> <<>>] : h \in Headers}
    /\ mapping_doc \in {[exists |-> TRUE, mapped_field |-> m, unique_field |-> ""] :
                           m \in SeqsUpTo(MapRows, MaxMapRows)}
    /\ workers = 0
    /\ call_limit = 0
    /\ RunInit

PreviewNext ==
    \E d \in {"Customer", "Ghost"}, u \in {UploadUrl, EmptyUrl} :
        validate_import_preview(d, u)

PreviewSpec == PreviewInit /\ [][PreviewNext]_vars

\* ===================================================================== claims

\* keys(M) and H of the preview, read off the mapping document and the workbook
MappingKeys == {mapping_doc.mapped_field[i].excel_field_name :
                   i \in DOMAIN mapping_doc.mapped_field}
HeaderSet == Range(sheet.columns)

\* C7: for a non-empty mapping M and a header set H, the preview's mapped_fields and
\* missing_in_excel are disjoint and their union is exactly keys(M).
PreviewPartitionsKeys ==
    preview.status = "success" =>
        /\ MappingKeys # {}
        /\ Range(preview.mapped_fields) \cap Range(preview.missing_in_excel) = {}
        /\ Range(preview.mapped_fields) \cup Range(preview.missing_in_excel) = MappingKeys

\* a preview in which some keys of the mapping are in the workbook and some are not
PreviewPartitionsKeysWitness ==
    /\ preview.status = "success"
    /\ preview.mapped_fields # <<>>
    /\ preview.missing_in_excel # <<>>

\* C8: the preview's missing_fields is exactly H minus keys(M), and has_missing is true
\* iff missing_fields or missing_in_excel is non-empty, that is iff H # keys(M).
PreviewMissingFields ==
    preview.status = "success" =>
        /\ Range(preview.missing_fields) = HeaderSet \ MappingKeys
        /\ preview.has_missing <=>
               (preview.missing_fields # <<>> \/ preview.missing_in_excel # <<>>)
        /\ ~preview.has_missing <=> (HeaderSet = MappingKeys)

\* a preview of a workbook whose headers are exactly the mapping's two keys
PreviewMissingFieldsWitness ==
    /\ preview.status = "success"
    /\ ~preview.has_missing
    /\ Len(preview.mapped_fields) = 2

\* the checks of start_excel_import, stated on the request and the site
CandidateDirs(file_url) ==
    {IF file_url.dir \in {"private/files", "files"} THEN file_url.dir ELSE "private/files",
     "public/files"}
SupportedBase(base) == base \in {"data.xlsx", "data.XLS"}
Validated(doctype_name, file_url) ==
    /\ doctype_name # "" /\ file_url # EmptyUrl
    /\ doctype_name = "Customer" /\ mapping_doc.exists
    /\ \E p \in fs : p.base = file_url.base /\ p.dir \in CandidateDirs(file_url)
    /\ SupportedBase(file_url.base)
    /\ mapping_doc.mapped_field # <<>>

\* C6: start_excel_import enqueues the job only when every validation check has passed;
\* when any check fails an error is raised and no job is enqueued for the request.
StartEnqueuesOnlyValidated ==
    [][/\ ncalls' # ncalls =>
            /\ last_call'.raised <=> ~Validated(last_call'.doctype_name, last_call'.file_url)
            /\ last_call'.raised => queue' = queue /\ job' = job
            /\ ~last_call'.raised =>
                   /\ queue' = Append(queue, ncalls')
                   /\ job'[ncalls'].doctype_name = last_call'.doctype_name
                   /\ job'[ncalls'].file_url = last_call'.file_url
                   /\ job'[ncalls'].file_path \in fs
       /\ Len(queue') > Len(queue) => ncalls' # ncalls
      ]_vars

\* a call that raised, after a call that enqueued its job: the queue holds one job
StartEnqueuesOnlyValidatedWitness ==
    /\ ncalls = 2
    /\ last_call.raised
    /\ Len(queue) = 1

\* ------------------------------------------------------------ the import run
Last(s) == s[Len(s)]
RowStages == {"row_map", "row_lookup", "row_write", "row_progress"}
Committed == {"cleanup", "publish_completed", "completed"}
Counted(r) == created_count[r] + updated_count[r] + skipped_count[r] + error_count[r]
ViewNames(r) == {rec.name : rec \in View(r)}

\* C1: for every row that process_excel_import processes, the action is fixed by
\* (existing record found, allow_update, allow_create): found and allow_update -> the
\* record is updated and updated_count grows by 1; found and not allow_update -> no
\* write, skipped_count grows by 1, nothing is created even when allow_create is true;
\* not found and allow_create -> a record is created and created_count grows by 1;
\* not found and not allow_create -> no write and skipped_count grows by 1.
ReconciliationTable ==
    [][\A r \in Runs :
        (pc[r] = "row_write" /\ pc'[r] = "row_progress") =>
            LET found == existing_doc[r] # NoDoc
                allow_update == job[r].allow_update = 1
                allow_create == job[r].allow_create = 1
            IN  /\ error_count'[r] = error_count[r]
                /\ (found /\ allow_update) =>
                       /\ updated_count'[r] = updated_count[r] + 1
                       /\ created_count'[r] = created_count[r]
                       /\ skipped_count'[r] = skipped_count[r]
                       /\ names_used' = names_used
                       /\ ViewNames(r)' = ViewNames(r)
                       /\ \E rec \in pending'[r] :
                              /\ rec.name = existing_doc[r]
                              /\ \A f \in DOMAIN doc_data[r] : rec.fields[f] = doc_data[r][f]
                /\ (found /\ ~allow_update) =>
                       /\ skipped_count'[r] = skipped_count[r] + 1
                       /\ created_count'[r] = created_count[r]
                       /\ updated_count'[r] = updated_count[r]
                       /\ UNCHANGED dbvars
                /\ (~found /\ allow_create) =>
                       /\ created_count'[r] = created_count[r] + 1
                       /\ updated_count'[r] = updated_count[r]
                       /\ skipped_count'[r] = skipped_count[r]
                       /\ Cardinality(View(r)') = Cardinality(View(r)) + 1
                       /\ View(r) \subseteq View(r)'
                       /\ \A rec \in View(r)' \ View(r) :
                              \A f \in DOMAIN doc_data[r] : rec.fields[f] = doc_data[r][f]
                /\ (~found /\ ~allow_create) =>
                       /\ skipped_count'[r] = skipped_count[r] + 1
                       /\ created_count'[r] = created_count[r]
                       /\ updated_count'[r] = updated_count[r]
                       /\ UNCHANGED dbvars
      ]_vars

\* the second row of a run repeats the first row's unique value with allow_update off
\* and allow_create on: the first row was created, the second found and skipped
ReconciliationTableWitness ==
    \E r \in Runs :
        /\ pc[r] = "row_progress" /\ idx[r] = 1
        /\ committed = {}
        /\ existing_doc[r] # NoDoc
        /\ job[r].allow_update = 0 /\ job[r].allow_create = 1
        /\ created_count[r] = 1 /\ skipped_count[r] = 1

\* C2: after a run over total_rows >= 1 rows that reaches the completed event, also
\* when rows raised errors, created + updated + skipped + error counts = total_rows.
CountersSumToTotal ==
    \A r \in Runs :
        (events[r] # <<>> /\ Last(events[r]).status = "completed") =>
            /\ total_rows[r] >= 1
            /\ Counted(r) = total_rows[r]
            /\ Last(events[r]).total = total_rows[r]

\* a completed run in which one row raised and another was created
CountersSumToTotalWitness ==
    \E r \in Runs :
        /\ pc[r] = "completed"
        /\ error_count[r] = 1 /\ created_count[r] = 1 /\ total_rows[r] = 2

NonDecreasing(evs) ==
    \A i, j \in DOMAIN evs : i < j => evs[i].progress <= evs[j].progress
LastEventOf(r) ==
    /\ pc[r] = "completed" =>
           Last(events[r]).progress = 100 /\ Last(events[r]).status = "completed"
    /\ pc[r] \in {"failed", "no_data"} =>
           Last(events[r]).progress = 0 /\ Last(events[r]).status = "error"

\* C3, as stated: the progress events of a run have non-decreasing progress_percent in
\* emission order, and the run's last event is (100, completed) or (0, error).
ProgressNonDecreasing ==
    \A r \in Runs : NonDecreasing(events[r]) /\ LastEventOf(r)

\* C3, amended: the in_progress and completed events of a run have non-decreasing
\* progress_percent in emission order; an error event is the run's last event and
\* carries 0 whatever was published before it; the last event of a run is
\* (100, completed) on the success path and (0, error) on the failure path.
ProgressNonDecreasingUntilError ==
    \A r \in Runs :
        /\ NonDecreasing(SelectSeq(events[r], LAMBDA e : e.status # "error"))
        /\ \A i \in DOMAIN events[r] :
               events[r][i].status = "error" =>
                   i = Len(events[r]) /\ events[r][i].progress = 0
        /\ LastEventOf(r)

\* a completed run that published two in_progress events of different percent
ProgressNonDecreasingWitness ==
    \E r \in Runs :
        /\ pc[r] = "completed"
        /\ Len(events[r]) = 3
        /\ events[r][1].progress < events[r][2].progress

\* C4: with a unique field configured, a file of N rows that all have (distinct)
\* unique-field values, and allow_create and allow_update both true, two runs over the
\* same file give created_count = N in the first run and created_count = 0,
\* updated_count = N in the second.
IdempotentReimport ==
    LET N == Len(sheet.rows)
        Both(r) == job[r].allow_create = 1 /\ job[r].allow_update = 1
                        /\ job[r].unique_field = "email_addr"
    IN  ( /\ pc[1] = "completed" /\ pc[2] = "completed"
          /\ Both(1) /\ Both(2)
          /\ error_count[1] = 0 /\ error_count[2] = 0
          /\ \A i \in 1..N : notna(sheet.rows[i]["Email"])
          /\ \A i, j \in 1..N : sheet.rows[i]["Email"] = sheet.rows[j]["Email"] => i = j )
        => ( /\ created_count[1] = N
             /\ created_count[2] = 0
             /\ updated_count[2] = N )

\* C5: an error raised while a row is processed adds exactly one to error_count and
\* does not abort the run: the loop goes on with the next row in order, never to the
\* top-level handler, and the run reaches the commit and, the commit done, the
\* completed event.
RowFailureIsolation ==
    /\ [][\A r \in Runs :
            /\ (pc[r] \in RowStages /\ error_count'[r] # error_count[r]) =>
                   /\ error_count'[r] = error_count[r] + 1
                   /\ created_count'[r] = created_count[r]
                   /\ updated_count'[r] = updated_count[r]
                   /\ skipped_count'[r] = skipped_count[r]
                   /\ IF idx[r] + 1 < total_rows[r]
                      THEN pc'[r] = "row_map" /\ idx'[r] = idx[r] + 1
                      ELSE pc'[r] = "commit"
            /\ pc[r] \in RowStages => pc'[r] \in RowStages \cup {"commit"}
            /\ (pc[r] = "row_map" /\ pc'[r] # "row_map") => Counted(r) = idx[r]
         ]_vars
    /\ \A r \in Runs :
           (pc[r] \in RowStages /\ error_count[r] > 0) ~> (pc[r] \in {"cleanup", "except"})
    /\ \A r \in Runs : (pc[r] = "cleanup" /\ error_count[r] > 0) ~> (pc[r] = "completed")

\* a completed run whose first row raised and whose second row was created after it
RowFailureIsolationWitness ==
    \E r \in Runs :
        /\ pc[r] = "completed"
        /\ error_count[r] = 1 /\ created_count[r] = 1
        /\ Cardinality(committed) = 1
        /\ \E rec \in committed : rec.fields["email_addr"] = sheet.rows[2]["Email"]
        /\ sheet.rows[1]["Email"] # sheet.rows[2]["Email"]

\* C9: on a file of zero data rows process_excel_import publishes exactly one progress
\* event (progress 0, total 0, status error), creates or updates no record, publishes
\* no completed event and ends without raising.
ZeroRowsOneErrorEvent ==
    /\ [](\A r \in Runs :
            pc[r] = "no_data" =>
                /\ events[r] = << Event(0, 0, Message("No data found in Excel file", "", <<>>),
                                        "error") >>
                /\ exc[r] = ""
                /\ pending[r] = {})
    /\ [][\A r \in Runs :
            /\ (pc[r] = "read_excel" /\ Len(sheet.rows) = 0 /\ pc'[r] # "read_excel") =>
                   pc'[r] \in {"no_data", "except"}
            /\ pc[r] = "no_data" => pc'[r] = "no_data" /\ events'[r] = events[r]
            /\ Len(sheet.rows) = 0 => UNCHANGED dbvars
         ]_vars

\* a run over a file of zero rows has ended, with a record in the store
ZeroRowsOneErrorEventWitness ==
    \E r \in Runs :
        /\ Len(sheet.rows) = 0
        /\ pc[r] = "no_data"
        /\ committed # {}

\* C10: when an exception escapes the per-row loop the run publishes an event with
\* progress 0 and status error that carries the failure message, rolls back its writes
\* so that none persists, publishes no completed event, and is terminal.
FailedRunRollsBack ==
    /\ [](\A r \in Runs :
            pc[r] = "failed" =>
                /\ events[r] # <<>>
                /\ exc[r] # ""
                /\ Last(events[r]) = Event(0, 0, Message("Import failed", exc[r], <<>>), "error")
                /\ \A i \in DOMAIN events[r] : events[r][i].status # "completed"
                /\ pending[r] = {})
    /\ [][\A r \in Runs :
            /\ (pc'[r] = "except" /\ pc[r] # "except") =>
                   pc[r] \in {"read_excel", "commit"} /\ committed' = committed
            /\ (pc[r] = "except" /\ pc'[r] # "except") =>
                   pc'[r] = "failed" /\ committed' = committed /\ pending'[r] = {}
            /\ pc[r] = "failed" => pc'[r] = "failed" /\ events'[r] = events[r]
            /\ pc[r] \in Committed => pc'[r] \in Committed
         ]_vars
    /\ [][committed' # committed => \E r \in Runs : pc[r] = "commit" /\ pc'[r] = "cleanup"]_vars

\* a run that created a record and updated another, and whose commit raised: the store
\* holds the one record it held before, unchanged
FailedRunRollsBackWitness ==
    \E r \in Runs :
        /\ pc[r] = "failed" /\ exc[r] = "OperationalError"
        /\ created_count[r] = 1 /\ updated_count[r] = 1
        /\ Cardinality(committed) = 1
        /\ \A rec \in committed : rec.fields["title"] = "t"

\* the cell of the current row of run r that the mapping sends to a doctype field, or
\* NaN when no column of the workbook is mapped to the field
CellFor(r, field) ==
    LET cols == {job[r].field_mapping[i].key : i \in
                    {j \in DOMAIN job[r].field_mapping :
                        /\ job[r].field_mapping[j].value = field
                        /\ InList(job[r].field_mapping[j].key, sheet.columns)}}
    IN  IF cols = {} THEN NaN ELSE sheet.rows[idx[r] + 1][CHOOSE c \in cols : TRUE]

\* C11: when a row updates an existing record, every field present in the draft (a
\* mapped field whose cell is not empty) is overwritten with the cell's value, every
\* field absent from the draft (unmapped, or mapped with an empty cell) keeps the value
\* the record had, and no other record is changed by that row.
PartialUpdate ==
    [][\A r \in Runs :
        (pc[r] = "row_write" /\ updated_count'[r] # updated_count[r]) =>
            /\ existing_doc[r] \in ViewNames(r)
            /\ ViewNames(r)' = ViewNames(r)
            /\ \A old \in View(r), new \in View(r)' :
                   old.name = new.name =>
                       IF old.name = existing_doc[r]
                       THEN \A f \in DoctypeFields :
                                new.fields[f] = IF notna(CellFor(r, f))
                                                THEN CellFor(r, f) ELSE old.fields[f]
                       ELSE new = old
      ]_vars

\* a row with an empty Name cell has updated the stored record, whose title is the one
\* it had, next to a record that the row before it created
PartialUpdateWitness ==
    \E r \in Runs :
        /\ pc[r] = "row_progress" /\ idx[r] = 1
        /\ updated_count[r] = 1 /\ created_count[r] = 1
        /\ sheet.rows[2]["Name"] = NaN /\ sheet.rows[2]["Email"] = "a"
        /\ \E rec \in pending[r] :
               /\ rec.name = existing_doc[r]
               /\ rec.name \in {c.name : c \in committed}
               /\ rec.fields["title"] = "t" /\ rec.fields["email_addr"] = "a"

InProgress(evs) == SelectSeq(evs, LAMBDA e : e.status = "in_progress")

\* the number of rows whose iteration of the loop has ended
RowsDone(r) == IF pc[r] \in RowStages THEN idx[r] ELSE total_rows[r]

CadenceRows(r) ==
    {j \in 1..RowsDone(r) : j % ProgressEvery = 0 \/ j = total_rows[r]}

\* C12: in a run over total_rows >= 1 rows an in_progress event is published after the
\* row of index i whenever i + 1 is a multiple of 10, and unconditionally after the last
\* row, each with progress_percent = floor((i + 1) * 100 / total_rows); no in_progress
\* event is published after any other row.
ProgressCadence ==
    \A r \in Runs :
        LET ip == InProgress(events[r])
        IN  /\ Len(ip) = Cardinality(CadenceRows(r))
            /\ {ip[k].message.args[1] : k \in DOMAIN ip} = CadenceRows(r)
            /\ \A k \in DOMAIN ip :
                   /\ ip[k].total = total_rows[r]
                   /\ ip[k].progress = (ip[k].message.args[1] * 100) \div total_rows[r]

\* C13: for every row, if a unique field is configured and the row's value for it is
\* non-null (any non-empty cell, whatever its value), the store is searched for a record
\* whose unique field equals that value and a match is the existing record found; in
\* every other case the row has no existing record and no record is looked up.
DuplicateLookup ==
    [][\A r \in Runs :
        (pc[r] = "row_lookup" /\ pc'[r] = "row_write") =>
            LET unique_field == job[r].unique_field
                cell == CellFor(r, unique_field)
                matches == {rec.name : rec \in
                               {x \in View(r) : x.fields[unique_field] = cell}}
            IN  IF unique_field # None /\ notna(cell)
                THEN IF matches = {}
                     THEN existing_doc'[r] = NoDoc
                     ELSE existing_doc'[r] \in matches
                ELSE existing_doc'[r] = NoDoc
      ]_vars

\* the unique field of run r is the target of a column and the current row's cell in
\* that column is empty
KeyCellEmpty(r) ==
    /\ job[r].unique_field # None
    /\ \E i \in DOMAIN job[r].field_mapping :
           /\ job[r].field_mapping[i].value = job[r].unique_field
           /\ InList(job[r].field_mapping[i].key, sheet.columns)
    /\ CellFor(r, job[r].unique_field) = NaN

\* C14: a row whose unique-key cell is empty has that field omitted from its draft and
\* is never matched to an existing record: it is created when allow_create is true and
\* skipped when it is false, whatever allow_update is and whatever records exist.
EmptyKeyRow ==
    /\ [](\A r \in Runs :
            (pc[r] \in {"row_lookup", "row_write"} /\ KeyCellEmpty(r)) =>
                /\ job[r].unique_field \notin DOMAIN doc_data[r]
                /\ unique_value[r] = None
                /\ pc[r] = "row_write" => existing_doc[r] = NoDoc)
    /\ [][\A r \in Runs :
            (pc[r] = "row_write" /\ pc'[r] = "row_progress" /\ KeyCellEmpty(r)) =>
                /\ updated_count'[r] = updated_count[r]
                /\ error_count'[r] = error_count[r]
                /\ IF job[r].allow_create = 1
                   THEN /\ created_count'[r] = created_count[r] + 1
                        /\ skipped_count'[r] = skipped_count[r]
                        /\ View(r) \subseteq View(r)'
                        /\ \E rec \in View(r)' \ View(r) :
                               /\ View(r)' = View(r) \cup {rec}
                               /\ rec.fields[job[r].unique_field] = None
                   ELSE /\ skipped_count'[r] = skipped_count[r] + 1
                        /\ created_count'[r] = created_count[r]
                        /\ UNCHANGED dbvars
         ]_vars

\* rows (n, a) and (n, empty) imported into an empty store with allow_create on and
\* allow_update off: both rows were created, none skipped
EmptyKeyRowWitness ==
    \E r \in Runs :
        /\ pc[r] = "completed"
        /\ job[r].unique_field = "email_addr"
        /\ job[r].allow_create = 1 /\ job[r].allow_update = 0
        /\ sheet.rows = << [Name |-> "n", Email |-> "a"], [Name |-> "n", Email |-> NaN] >>
        /\ created_count[r] = 2 /\ skipped_count[r] = 0
        /\ {rec.fields["email_addr"] : rec \in committed} = {"a", None}
        /\ Cardinality(committed) = 2

CompletedEvents(r) == SelectSeq(events[r], LAMBDA e : e.status = "completed")

\* C15: on the success path the run's writes are committed after the last row is
\* processed and before the completed event is published; a run publishes at most one
\* completed event, exactly one once it has ended in success, with progress 100 and
\* total = total_rows; its message carries the error count iff error_count > 0.
CommitThenCompleted ==
    /\ [](\A r \in Runs :
            /\ Len(CompletedEvents(r)) = IF pc[r] = "completed" THEN 1 ELSE 0
            /\ pc[r] = "completed" =>
                   LET e == Last(events[r])
                   IN  /\ e.status = "completed"
                       /\ e.progress = 100
                       /\ e.total = total_rows[r]
                       /\ pending[r] = {}
                       /\ SubSeq(e.message.args, 1, 3) =
                              <<created_count[r], updated_count[r], skipped_count[r]>>
                       /\ Len(e.message.args) = 4 <=> error_count[r] > 0
                       /\ Len(e.message.args) = 4 => e.message.args[4] = error_count[r]
                       /\ Len(e.message.args) \in {3, 4})
    /\ [][\A r \in Runs :
            /\ (pc'[r] = "cleanup" /\ pc[r] # "cleanup") =>
                   /\ pc[r] = "commit"
                   /\ Counted(r) = total_rows[r]
                   /\ committed' = View(r)
                   /\ pending'[r] = {}
            /\ (pc'[r] = "publish_completed" /\ pc[r] # "publish_completed") =>
                   pc[r] = "cleanup"
            /\ events'[r] # events[r] /\ Last(events'[r]).status = "completed" =>
                   /\ pc[r] = "publish_completed"
                   /\ pending[r] = {}
                   /\ committed' = committed
         ]_vars

\* a completed run that created one record, now committed, and counted one row error:
\* its only completed event reports four counts
CommitThenCompletedWitness ==
    \E r \in Runs :
        /\ pc[r] = "completed"
        /\ created_count[r] = 1 /\ error_count[r] = 1
        /\ Last(events[r]).message.args = <<1, 0, 0, 1>>
        /\ \E rec \in committed : rec.fields["title"] = "n"

\* C16: cleanup is best-effort: whether or not the deletion of the source file or of
\* its File record fails after the commit, the cleanup changes no record, publishes no
\* event and raises nothing to the top-level handler; the run goes on to publish
\* completed with progress 100, publishes no error event, and its committed writes stay.
CleanupBestEffort ==
    /\ [][\A r \in Runs :
            /\ pc[r] = "cleanup" =>
                   /\ pc'[r] \in {"cleanup", "publish_completed"}
                   /\ events'[r] = events[r]
                   /\ exc'[r] = exc[r]
                   /\ UNCHANGED dbvars
            /\ pc[r] = "publish_completed" =>
                   /\ pc'[r] \in {"publish_completed", "completed"}
                   /\ UNCHANGED dbvars
            /\ pc[r] = "completed" => pc'[r] = "completed" /\ events'[r] = events[r]
         ]_vars
    /\ [](\A r \in Runs :
            pc[r] = "completed" =>
                /\ Last(events[r]).status = "completed" /\ Last(events[r]).progress = 100
                /\ \A i \in DOMAIN events[r] : events[r][i].status # "error"
                /\ exc[r] = "")

\* a completed run whose record is committed although the file was removed and the
\* deletion of its File record failed
CleanupBestEffortWitness ==
    \E r \in Runs :
        /\ pc[r] = "completed"
        /\ job[r].file_path \notin fs /\ job[r].file_url \in file_doc
        /\ created_count[r] = 1
        /\ \E rec \in committed : rec.fields["title"] = "n"
        /\ Last(events[r]).status = "completed"

OwnView(r) == committed \cup pending[r]
AllNames == {rec.name : rec \in committed \cup UNION {pending[q] : q \in Runs}}

\* C17: concurrent runs are not mutually excluded.  A run's lookup finds a record only
\* among the committed records and the run's own writes, never among the uncommitted
\* writes of another run; a create adds a record under a fresh name whatever the other
\* runs have written; a commit keeps every committed record the run did not write.  So
\* two runs with allow_create, each with a row of the same unique value that the store
\* does not hold, can both look up, find nothing and create: the store ends with two
\* records of that unique value.
ConcurrentRunsNotExcluded ==
    [][\A r \in Runs :
        /\ (pc[r] = "row_lookup" /\ pc'[r] = "row_write"
                /\ job[r].unique_field # None /\ truthy(unique_value[r])) =>
               (existing_doc'[r] = NoDoc <=>
                    \A rec \in OwnView(r) :
                        rec.fields[job[r].unique_field] # unique_value[r])
        /\ (pc[r] = "row_write" /\ created_count'[r] # created_count[r]) =>
               /\ existing_doc[r] = NoDoc
               /\ committed' = committed
               /\ \A q \in Runs \ {r} : pending'[q] = pending[q]
               /\ \E rec \in pending'[r] :
                      /\ rec.name \notin AllNames
                      /\ pending'[r] = pending[r] \cup {rec}
        /\ (pc[r] = "commit" /\ pc'[r] = "cleanup") =>
               /\ pending[r] \subseteq committed'
               /\ \A rec \in committed :
                      rec \in committed' \/ \E p \in pending[r] : p.name = rec.name
               /\ \A q \in Runs \ {r} : pending'[q] = pending[q]
      ]_vars

\* both runs have completed, each created one record for the one row of the file, and
\* the store, empty before, holds two records with the same unique value
ConcurrentRunsNotExcludedWitness ==
    /\ pc[1] = "completed" /\ pc[2] = "completed"
    /\ job[1].unique_field = "email_addr"
    /\ Len(sheet.rows) = 1 /\ sheet.rows[1]["Email"] = "a"
    /\ created_count[1] = 1 /\ created_count[2] = 1
    /\ Cardinality({rec \in committed : rec.fields["email_addr"] = "a"}) = 2

\* run r has a unique field configured that no column is mapped to
UniqueFieldUnmapped(r) ==
    /\ job[r] # NoJob
    /\ job[r].unique_field # None
    /\ \A i \in DOMAIN job[r].field_mapping :
           job[r].field_mapping[i].value # job[r].unique_field

\* C18: if the configured unique field is not a target field of the mapping, duplicate
\* detection never triggers: no row has a unique value or performs a lookup, no row
\* finds an existing record, updated_count stays 0, and every row that does not raise
\* is created when allow_create is true and skipped when it is false, whatever the
\* store holds.
UnmappedUniqueField ==
    \A r \in Runs :
        UniqueFieldUnmapped(r) =>
            /\ unique_value[r] = None
            /\ ~(job[r].unique_field # None /\ truthy(unique_value[r]))
            /\ existing_doc[r] = NoDoc
            /\ updated_count[r] = 0
            /\ IF job[r].allow_create = 1
               THEN skipped_count[r] = 0
               ELSE created_count[r] = 0 /\ pending[r] = {}
            /\ pc[r] \in {"commit", "cleanup", "publish_completed", "completed"} =>
                   created_count[r] + skipped_count[r] + error_count[r] = total_rows[r]

\* with unique field phone, which no column is mapped to, and both flags on, a row whose
\* Email is that of the stored record was created next to it
UnmappedUniqueFieldWitness ==
    \E r \in Runs :
        /\ UniqueFieldUnmapped(r)
        /\ pc[r] = "completed"
        /\ job[r].allow_create = 1 /\ job[r].allow_update = 1
        /\ created_count[r] = 1 /\ total_rows[r] = 1
        /\ Cardinality({rec \in committed : rec.fields["email_addr"] = "a"}) = 2

\* no two records that run r reads hold the same value of its unique field
UniquePerValue(r) ==
    \A x, y \in View(r) :
        (x.fields[job[r].unique_field] = y.fields[job[r].unique_field]
            /\ x.fields[job[r].unique_field] # None) => x = y

\* C19: in a single run whose unique field is a mapped target field, over a store in
\* which no two records share a unique-field value, a file whose rows all have a
\* non-empty unique value and raise no error leaves, after every row, at most one record
\* per unique-field value: a row that repeats the value of an earlier row finds that
\* row's record and is updated or skipped, never created.
UniqueValuePreserved ==
    \A r \in Runs :
        ( /\ job[r] # NoJob
          /\ job[r].unique_field = "email_addr"
          /\ \A i \in DOMAIN sheet.rows : notna(sheet.rows[i]["Email"])
          /\ error_count[r] = 0
          /\ pc[r] \in RowStages \cup {"commit"} )
        => UniquePerValue(r)

\* C20: the source file and its File record are deleted only after the run's writes
\* are committed: only the cleanup step of a run that has committed removes them; a run
\* over zero rows and a run that fails at the top level before its commit leave the file
\* and the File record in place.
DeleteOnlyAfterCommit ==
    /\ [][(fs' # fs \/ file_doc' # file_doc) =>
            /\ fs' \subseteq fs /\ file_doc' \subseteq file_doc
            /\ \E r \in Runs :
                   /\ pc[r] = "cleanup" /\ pc'[r] = "publish_completed"
                   /\ pending[r] = {}
                   /\ committed' = committed
                   /\ fs \ fs' \subseteq {job[r].file_path}
                   /\ file_doc \ file_doc' \subseteq {job[r].file_url}
         ]_vars
    /\ [][\A r \in Runs :
            (pc'[r] = "cleanup" /\ pc[r] # "cleanup") =>
                pc[r] = "commit" /\ committed' = View(r)]_vars
    /\ [](\A r \in Runs :
            pc[r] \in {"read_excel", "commit", "except", "no_data", "failed"} \cup RowStages =>
                /\ job[r].file_path \in fs
                /\ job[r].file_url \in file_doc)

\* a run that created a record failed at its commit: nothing is committed and the file
\* and its File record are in place
DeleteOnlyAfterCommitWitness ==
    \E r \in Runs :
        /\ pc[r] = "failed" /\ exc[r] = "OperationalError"
        /\ created_count[r] = 1
        /\ committed = {}
        /\ job[r].file_path \in fs /\ job[r].file_url \in file_doc

====
